---- MODULE Spec2Model ----
(***************************************************************************)
(* Model of async-throttle-optimizer:                                      *)
(*   RequestThrottler  (src/src/async_throttle_optimizer/throttler.py)     *)
(*   RateFinder        (src/src/async_throttle_optimizer/rate_finder.py)   *)
(*                                                                         *)
(* A RequestThrottler is either run on its own (as the test does) or by a  *)
(* RateFinder, whose find_rate() constructs a fresh RequestThrottler in    *)
(* every iteration and awaits its run().  A trial consists of the main     *)
(* coroutine run(), `concurrency` worker tasks and the token dispenser     *)
(* task, which interleave at their await points.                           *)
(*                                                                         *)
(* Numbers.  Latency samples are whole seconds.  Rates, means and ratios   *)
(* are exact rationals <<num, den>> in lowest terms (req/s, seconds); std  *)
(* is carried by its radicand E[x^2] - E[x]^2 (std = sqrt of it).          *)
(* Optional values: None is the empty tuple.                               *)
(***************************************************************************)
EXTENDS Integers, Sequences, FiniteSets, TLC

\* ---------------------------------------------------------------- bounds
\* urls of a RequestThrottler run on its own / of a RateFinder
MaxUrls == 3
MaxFinderUrls == 1
MaxConcurrency == 2
MaxIterations == 2
\* tokens the dispenser puts beyond one per url
TokenSurplus == 1

\* ------------------------------------------------------- value universes
\* HTTP statuses a response can carry, latencies (seconds) a request can take
Statuses == {200, 429, 500}
Latencies == {1, 3}
\* (min_rate, max_rate) a RateFinder is configured with, req/s
InitialRanges == {<<<<1, 1>>, <<1, 1>>>>, <<<<1, 4>>, <<1, 1>>>>}

None == <<>>
NoItem == 0

VARIABLES
    \* RateFinder fields and find_rate locals
    urls, concurrency, max_iterations,
    min_rate, max_rate, best_rate, best_stats,
    i, current_rate, fr_pc, fr_result,
    \* RequestThrottler fields
    rate, latencies, success_count, error_count, status_counts,
    \* run() locals and the tasks it creates
    queue, unfinished_tasks, token_queue, start_ref_event,
    run_pc, run_result, token_task, wpc,
    \* _worker local: the work item a worker pulled and has not yet
    \* acknowledged (NoItem otherwise)
    url,
    \* history: tokens put by the dispenser, requests started per work item
    tokens_emitted, attempts,
    \* history of find_rate: one <<candidate, had a success, met the
    \* acceptance conditions>> per judged trial
    history

finder_vars == <<urls, concurrency, max_iterations, min_rate, max_rate,
                 best_rate, best_stats, i, current_rate, fr_pc, fr_result,
                 history>>
stat_vars == <<latencies, success_count, error_count, status_counts>>
trial_vars == <<rate, latencies, success_count, error_count, status_counts,
                url, queue, unfinished_tasks, token_queue,
                start_ref_event, run_pc, run_result, token_task, wpc,
                tokens_emitted, attempts>>
vars == <<finder_vars, trial_vars>>

\* ------------------------------------------------------------ arithmetic
RECURSIVE GCD(_, _)
GCD(a, b) == IF b = 0 THEN a ELSE GCD(b, a % b)

\* the rational n/d (n >= 0, d > 0) in lowest terms
Rat(n, d) == LET g == GCD(n, d) IN <<n \div g, d \div g>>

RatGT(p, q) == p[1] * q[2] > q[1] * p[2]

RECURSIVE SeqSum(_)
SeqSum(s) == IF s = <<>> THEN 0 ELSE Head(s) + SeqSum(Tail(s))

RECURSIVE SeqSumSq(_)
SeqSumSq(s) == IF s = <<>> THEN 0 ELSE Head(s) * Head(s) + SeqSumSq(Tail(s))

SeqMin(s) == CHOOSE x \in {s[k] : k \in 1..Len(s)} :
                 \A y \in {s[k] : k \in 1..Len(s)} : x <= y
SeqMax(s) == CHOOSE x \in {s[k] : k \in 1..Len(s)} :
                 \A y \in {s[k] : k \in 1..Len(s)} : x >= y

\* dict.get(key, 0)
DictGet(d, k) == IF k \in DOMAIN d THEN d[k] ELSE 0

\* d[key] = value
DictSet(d, k, v) == [x \in (DOMAIN d) \cup {k} |-> IF x = k THEN v ELSE d[x]]

EmptyDict == [x \in {} |-> 0]

\* ------------------------------------------------ RequestThrottler: stats
\* compute_stats(): (total_requests, mean, std, min, max, error_rate,
\* status_distribution); std as its radicand.
compute_stats_errors_hide_latency ==
    LET total_requests == success_count + error_count
        n == Len(latencies)
        sum == SeqSum(latencies)
        sum_sq == SeqSumSq(latencies)
        absent == error_count > 0 \/ n = 0
    IN  IF total_requests = 0
        THEN <<0, None, None, None, None, Rat(0, 1), EmptyDict>>
        ELSE <<total_requests,
               IF absent THEN None ELSE Rat(sum, n),
               IF absent THEN None
               ELSE Rat(n * sum_sq - sum * sum, n * n),
               IF absent THEN None ELSE Rat(SeqMin(latencies), 1),
               IF absent THEN None ELSE Rat(SeqMax(latencies), 1),
               Rat(error_count, total_requests),
               status_counts>>

compute_stats_zero_when_empty ==
    LET total_requests == success_count + error_count
        n == Len(latencies)
        sum == SeqSum(latencies)
        sum_sq == SeqSumSq(latencies)
    IN  IF total_requests = 0
        THEN <<0, Rat(0, 1), Rat(0, 1), Rat(0, 1), Rat(0, 1), Rat(0, 1),
               EmptyDict>>
        ELSE <<total_requests,
               IF n = 0 THEN None ELSE Rat(sum, n),
               IF n = 0 THEN None
               ELSE Rat(n * sum_sq - sum * sum, n * n),
               IF n = 0 THEN None ELSE Rat(SeqMin(latencies), 1),
               IF n = 0 THEN None ELSE Rat(SeqMax(latencies), 1),
               Rat(error_count, total_requests),
               status_counts>>

compute_stats ==
    LET total_requests == success_count + error_count
        n == Len(latencies)
        sum == SeqSum(latencies)
        sum_sq == SeqSumSq(latencies)
    IN  IF total_requests = 0
        THEN <<0, None, None, None, None, Rat(0, 1), EmptyDict>>
        ELSE <<total_requests,
               IF n = 0 THEN None ELSE Rat(sum, n),
               IF n = 0 THEN None
               ELSE Rat(n * sum_sq - sum * sum, n * n),
               IF n = 0 THEN None ELSE Rat(SeqMin(latencies), 1),
               IF n = 0 THEN None ELSE Rat(SeqMax(latencies), 1),
               Rat(error_count, total_requests),
               status_counts>>

\* math.sqrt raises ValueError on a negative argument.  sum_sq / n and
\* mean * mean are rounded separately; when the exact variance is zero the
\* rounded difference can come out negative (three samples of 0.1 give
\* -1.7e-18).  One or two equal samples are computed exactly.
SqrtMayRaise ==
    LET n == Len(latencies)
    IN  /\ success_count + error_count > 0
        /\ n >= 3
        /\ n * SeqSumSq(latencies) = SeqSum(latencies) * SeqSum(latencies)

\* ------------------------------------------------ RequestThrottler: tasks
WorkersOneMore == 0 .. concurrency

\* worker ids of one trial: range(self.concurrency)
Workers == 0 .. (concurrency - 1)

\* the WorkItems of a trial are the positions of self.urls
Items == 1 .. Len(urls)

\* RequestThrottler.__init__ as called from find_rate
NewThrottler(r) ==
    /\ rate' = r
    /\ latencies' = <<>>
    /\ success_count' = 0
    /\ error_count' = 0
    /\ status_counts' = EmptyDict

JoinReturnsOnEmptyQueue == queue = <<>>

\* queue.join() returns once every put() has been matched by a task_done()
JoinReturns == unfinished_tasks = 0

\* run() after `await queue.join()`: cancel every worker, then the dispenser.
\* Task.cancel() on a finished task does nothing; a pending task gets
\* CancelledError at the await it is suspended in and runs no further code.
CancelTasks ==
    /\ wpc' = [w \in DOMAIN wpc |->
                 IF wpc[w] = "failed" THEN "failed" ELSE "cancelled"]
    /\ token_task' = "cancelled"

\* run() from its first line to its first suspension: fill the queue, create
\* the dispenser and the workers, await queue.join().  With no urls join()
\* returns at once, the tasks are cancelled before they ever ran and run()
\* suspends in the exit of the session context.
RunStart ==
    /\ run_pc = "start"
    /\ queue' = [k \in 1..Len(urls) |-> k]
    /\ unfinished_tasks' = Len(urls)
    /\ token_queue' = 0
    /\ tokens_emitted' = 0
    /\ attempts' = [k \in Items |-> 0]
    /\ start_ref_event' = FALSE
    /\ run_result' = None
    /\ IF Len(urls) = 0
       THEN /\ wpc' = [w \in Workers |-> "cancelled"]
            /\ token_task' = "cancelled"
            /\ run_pc' = "closing"
       ELSE /\ wpc' = [w \in Workers |-> "queue_get"]
            /\ token_task' = "running"
            /\ run_pc' = "joining"
    /\ url' = [w \in Workers |-> NoItem]
    /\ UNCHANGED <<finder_vars, rate, stat_vars>>

\* _token_dispenser: one pass of its loop (sleep, then put a token)
TokenDispense ==
    /\ token_task = "running"
    /\ tokens_emitted < Len(urls) + TokenSurplus
    /\ token_queue' = token_queue + 1
    /\ tokens_emitted' = tokens_emitted + 1
    /\ UNCHANGED <<finder_vars, rate, stat_vars, url, queue,
                   unfinished_tasks, start_ref_event, run_pc, run_result,
                   token_task, wpc, attempts>>

QueuePeek(q) == q

\* what queue.get() leaves in the queue: everything but the head it returns
QueueAfterGet(q) == Tail(q)

TokenNotAwaited == TRUE

\* await token_queue.get() returns without suspending
TokenAvailable == token_queue > 0

\* _worker lines 87-91 and _send_request lines 46-48, with `item` in hand:
\* take a token if there is one, start the request and suspend in it;
\* otherwise suspend in token_queue.get()
AwaitToken(w, item) ==
    IF TokenAvailable
    THEN /\ token_queue' = token_queue - 1
         /\ attempts' = [attempts EXCEPT ![item] = @ + 1]
         /\ wpc' = [wpc EXCEPT ![w] = "request"]
    ELSE /\ wpc' = [wpc EXCEPT ![w] = "token_get"]
         /\ UNCHANGED <<token_queue, attempts>>

\* _worker lines 78-91, from the top of the loop: queue.get() returns the
\* head of a non-empty queue without suspending, and suspends on an empty one
AwaitUrl(w) ==
    IF queue # <<>>
    THEN /\ queue' = QueueAfterGet(queue)
         /\ url' = [url EXCEPT ![w] = Head(queue)]
         /\ AwaitToken(w, Head(queue))
    ELSE /\ wpc' = [wpc EXCEPT ![w] = "queue_get"]
         /\ url' = [url EXCEPT ![w] = NoItem]
         /\ UNCHANGED <<queue, token_queue, attempts>>

\* a worker suspended in (or not yet started before) queue.get() is resumed
\* with a url
WorkerGetUrl(w) ==
    /\ wpc[w] = "queue_get"
    /\ queue # <<>>
    /\ AwaitUrl(w)
    /\ UNCHANGED <<finder_vars, rate, stat_vars, unfinished_tasks,
                   start_ref_event, run_pc, run_result, token_task,
                   tokens_emitted>>

\* a worker suspended in token_queue.get() is resumed with a token
WorkerGetToken(w) ==
    /\ wpc[w] = "token_get"
    /\ TokenAvailable
    /\ AwaitToken(w, url[w])
    /\ UNCHANGED <<finder_vars, rate, stat_vars, url, queue,
                   unfinished_tasks, start_ref_event, run_pc, run_result,
                   token_task, tokens_emitted>>

RequestResponseErrorStatusFails(w, status) ==
    /\ wpc[w] = "request"
    /\ status_counts' =
         DictSet(status_counts, status, DictGet(status_counts, status) + 1)
    /\ error_count' = IF status >= 400 THEN error_count + 1 ELSE error_count
    /\ wpc' = [wpc EXCEPT ![w] = "response_exit"]
    /\ UNCHANGED <<finder_vars, rate, latencies, success_count,
                   url, queue, unfinished_tasks, token_queue,
                   start_ref_event, run_pc, run_result, token_task,
                   tokens_emitted, attempts>>

\* _send_request lines 48-52: the full response arrived with some HTTP status;
\* count the status, then leave the `async with` block (an await)
RequestResponse(w, status) ==
    /\ wpc[w] = "request"
    /\ status_counts' =
         DictSet(status_counts, status, DictGet(status_counts, status) + 1)
    /\ wpc' = [wpc EXCEPT ![w] = "response_exit"]
    /\ UNCHANGED <<finder_vars, rate, latencies, success_count, error_count,
                   url, queue, unfinished_tasks, token_queue,
                   start_ref_event, run_pc, run_result, token_task,
                   tokens_emitted, attempts>>

RequestSuccessLostUpdate(w, latency) ==
    /\ wpc[w] = "response_exit"
    /\ latencies' = Append(latencies, latency)
    /\ success_count' =
         IF \E v \in DOMAIN wpc : v # w /\ wpc[v] = "response_exit"
         THEN success_count ELSE success_count + 1
    /\ start_ref_event' = TRUE
    /\ unfinished_tasks' = unfinished_tasks - 1
    /\ AwaitUrl(w)
    /\ UNCHANGED <<finder_vars, rate, error_count, status_counts,
                   run_pc, run_result, token_task, tokens_emitted>>

\* _send_request lines 58-68 and _worker lines 91-104, 78-91: record the
\* latency and the success, set the start reference, queue.task_done(), and
\* go round the loop
RequestSuccess(w, latency) ==
    /\ wpc[w] = "response_exit"
    /\ latencies' = Append(latencies, latency)
    /\ success_count' = success_count + 1
    /\ start_ref_event' = TRUE
    /\ unfinished_tasks' = unfinished_tasks - 1
    /\ AwaitUrl(w)
    /\ UNCHANGED <<finder_vars, rate, error_count, status_counts,
                   run_pc, run_result, token_task, tokens_emitted>>

\* _send_request lines 54-57 and _worker line 91: a ClientError or a timeout
\* is counted, _send_request returns None, and unpacking None into
\* (start_time, end_time) raises TypeError: the worker task ends there,
\* before queue.task_done()
RequestFailure(w) ==
    /\ wpc[w] = "request"
    /\ error_count' = error_count + 1
    /\ wpc' = [wpc EXCEPT ![w] = "failed"]
    /\ UNCHANGED <<finder_vars, rate, latencies, success_count, status_counts,
                   url, queue, unfinished_tasks, token_queue,
                   start_ref_event, run_pc, run_result, token_task,
                   tokens_emitted, attempts>>

\* run() lines 184-189: join() returned; cancel the tasks and suspend in the
\* exit of the session context
RunJoined ==
    /\ run_pc = "joining"
    /\ JoinReturns
    /\ CancelTasks
    /\ run_pc' = "closing"
    /\ UNCHANGED <<finder_vars, rate, stat_vars, url, queue,
                   unfinished_tasks, token_queue, start_ref_event, run_result,
                   tokens_emitted, attempts>>

\* run() line 191: return self.compute_stats()
RunReturn ==
    /\ run_pc = "closing"
    /\ run_result' = compute_stats
    /\ run_pc' = "returned"
    /\ UNCHANGED <<finder_vars, rate, stat_vars, url, queue,
                   unfinished_tasks, token_queue, start_ref_event,
                   token_task, wpc, tokens_emitted, attempts>>

\* run() line 191 when math.sqrt raises in compute_stats; the ValueError
\* leaves run() and, at rate_finder.py line 108, find_rate() as well
RunRaise ==
    /\ run_pc = "closing"
    /\ SqrtMayRaise
    /\ run_pc' = "raised"
    /\ fr_pc' = IF fr_pc = "await_run" THEN "raised" ELSE fr_pc
    /\ UNCHANGED <<urls, concurrency, max_iterations, min_rate, max_rate,
                   best_rate, best_stats, i, current_rate, fr_result, history,
                   rate, stat_vars, url, queue, unfinished_tasks,
                   token_queue, start_ref_event, run_result, token_task, wpc,
                   tokens_emitted, attempts>>

\* --------------------------------------------------------------- RateFinder
\* RateFinder.__init__ defaults
error_threshold == <<1, 10>>
bad_status_threshold == <<1, 10>>
default_best_stats == <<None, None, None, None>>

MidpointIsFloor(lo, hi) == lo

MidpointNotHalved(lo, hi) == Rat(lo[1] * hi[2] + hi[1] * lo[2], lo[2] * hi[2])

\* find_rate line 91: (self.min_rate + self.max_rate) / 2
Midpoint(lo, hi) == Rat(lo[1] * hi[2] + hi[1] * lo[2], 2 * lo[2] * hi[2])

\* find_rate line 94: self.concurrency / current_rate
LatencyThreshold(r) == Rat(concurrency * r[2], r[1])

evaluate_conditions_ignores_500(mean, latency_threshold, error_rate, status_distribution, total_requests) ==
    LET bad_counts == DictGet(status_distribution, 429)
        bad_rate == IF total_requests > 0
                    THEN Rat(bad_counts, total_requests) ELSE Rat(0, 1)
    IN  IF mean # None /\ RatGT(mean, latency_threshold) THEN FALSE
        ELSE IF RatGT(error_rate, error_threshold) THEN FALSE
        ELSE IF RatGT(bad_rate, bad_status_threshold) THEN FALSE
        ELSE TRUE

\* _evaluate_conditions: TRUE when the rate is acceptable
evaluate_conditions(mean, latency_threshold, error_rate, status_distribution, total_requests) ==
    LET bad_counts == DictGet(status_distribution, 429)
                      + DictGet(status_distribution, 500)
        bad_rate == IF total_requests > 0
                    THEN Rat(bad_counts, total_requests) ELSE Rat(0, 1)
    IN  IF mean # None /\ RatGT(mean, latency_threshold) THEN FALSE
        ELSE IF RatGT(error_rate, error_threshold) THEN FALSE
        ELSE IF RatGT(bad_rate, bad_status_threshold) THEN FALSE
        ELSE TRUE

\* history only: the trial statistics `stats`, measured at rate r, violate
\* none of the three acceptance conditions (mean latency, error rate, rate of
\* 429 and 500 responses)
MeetsConditions(stats, r) ==
    LET bad == DictGet(stats[7], 429) + DictGet(stats[7], 500)
    IN  /\ stats[2] # None =>
              stats[2][1] * r[1] <= concurrency * r[2] * stats[2][2]
        /\ stats[6][1] * error_threshold[2] <= error_threshold[1] * stats[6][2]
        /\ stats[1] > 0 =>
              bad * bad_status_threshold[2] <= bad_status_threshold[1] * stats[1]

\* the RequestThrottler of an iteration and the locals of its run() are
\* dropped once the iteration has read the result
DropThrottler ==
    /\ rate' = None
    /\ latencies' = <<>>
    /\ success_count' = 0
    /\ error_count' = 0
    /\ status_counts' = EmptyDict
    /\ queue' = <<>>
    /\ unfinished_tasks' = 0
    /\ token_queue' = 0
    /\ start_ref_event' = FALSE
    /\ run_pc' = "none"
    /\ run_result' = None
    /\ token_task' = "none"
    /\ wpc' = EmptyDict
    /\ url' = EmptyDict
    /\ tokens_emitted' = 0
    /\ attempts' = EmptyDict

\* find_rate lines 90-99 and 108: next iteration; build the throttler for the
\* middle of the range and call its run()
FindRateIterate ==
    /\ fr_pc = "loop"
    /\ i < max_iterations
    /\ current_rate' = Midpoint(min_rate, max_rate)
    /\ NewThrottler(current_rate')
    /\ run_pc' = "start"
    /\ fr_pc' = "await_run"
    /\ UNCHANGED <<urls, concurrency, max_iterations, min_rate, max_rate,
                   best_rate, best_stats, i, fr_result, history, url, queue,
                   unfinished_tasks, token_queue, start_ref_event, run_result,
                   token_task, wpc, tokens_emitted, attempts>>

NoSuccessRaisesFloor ==
    /\ min_rate' = current_rate
    /\ UNCHANGED <<max_rate, best_rate, best_stats>>

\* find_rate lines 110-114: the trial had no successful request
NoSuccess ==
    /\ max_rate' = current_rate
    /\ UNCHANGED <<min_rate, best_rate, best_stats>>

AcceptLowersCeiling(stats) ==
    /\ max_rate' = current_rate
    /\ best_rate' = current_rate
    /\ best_stats' = <<stats[2], stats[3], stats[4], stats[5], stats[6],
                       stats[7]>>
    /\ UNCHANGED min_rate

AcceptKeepsStats(stats) ==
    /\ min_rate' = current_rate
    /\ best_rate' = current_rate
    /\ UNCHANGED <<max_rate, best_stats>>

\* find_rate lines 126-132: the conditions are acceptable
Accept(stats) ==
    /\ min_rate' = current_rate
    /\ best_rate' = current_rate
    /\ best_stats' = <<stats[2], stats[3], stats[4], stats[5], stats[6],
                       stats[7]>>
    /\ UNCHANGED max_rate

RejectRecordsBest ==
    /\ max_rate' = current_rate
    /\ best_rate' = current_rate
    /\ UNCHANGED <<min_rate, best_stats>>

\* find_rate lines 134-139: the conditions are bad
Reject ==
    /\ max_rate' = current_rate
    /\ UNCHANGED <<min_rate, best_rate, best_stats>>

\* find_rate lines 100-139: run() returned; judge the trial and narrow the
\* range
FindRateJudge ==
    /\ fr_pc = "await_run"
    /\ run_pc = "returned"
    /\ LET total_reqs == run_result[1]
           mean == run_result[2]
           error_rate == run_result[6]
           status_dist == run_result[7]
       IN  IF mean = None THEN NoSuccess
           ELSE IF evaluate_conditions(mean, LatencyThreshold(current_rate),
                                       error_rate, status_dist, total_reqs)
                THEN Accept(run_result)
                ELSE Reject
    /\ i' = i + 1
    /\ fr_pc' = "loop"
    /\ history' = Append(history,
                         <<current_rate, run_result[2] # None,
                           MeetsConditions(run_result, current_rate)>>)
    /\ DropThrottler
    /\ UNCHANGED <<urls, concurrency, max_iterations, current_rate,
                   fr_result>>

\* find_rate line 141: return self.best_rate, self.best_stats
FindRateReturn ==
    /\ fr_pc = "loop"
    /\ i = max_iterations
    /\ fr_result' = <<best_rate, best_stats>>
    /\ fr_pc' = "done"
    /\ UNCHANGED <<urls, concurrency, max_iterations, min_rate, max_rate,
                   best_rate, best_stats, i, current_rate, history,
                   trial_vars>>

\* ------------------------------------------------------------ specification
\* no RequestThrottler yet
NoThrottler ==
    /\ rate = None
    /\ latencies = <<>>
    /\ success_count = 0
    /\ error_count = 0
    /\ status_counts = EmptyDict
    /\ queue = <<>>
    /\ unfinished_tasks = 0
    /\ token_queue = 0
    /\ start_ref_event = FALSE
    /\ run_pc = "none"
    /\ run_result = None
    /\ token_task = "none"
    /\ wpc = EmptyDict
    /\ url = EmptyDict
    /\ tokens_emitted = 0
    /\ attempts = EmptyDict

\* a RateFinder as constructed, before find_rate() is called
FinderInit ==
    /\ \E n \in 0..MaxFinderUrls : urls = [k \in 1..n |-> k]
    /\ concurrency \in 1..MaxConcurrency
    /\ max_iterations \in 0..MaxIterations
    /\ \E r \in InitialRanges :
         /\ min_rate = r[1]
         /\ max_rate = r[2]
    /\ best_rate = None
    /\ best_stats = default_best_stats
    /\ i = 0
    /\ current_rate = None
    /\ fr_pc = "loop"
    /\ fr_result = None
    /\ history = <<>>
    /\ NoThrottler

\* a RequestThrottler constructed on its own (default rate), before run()
ThrottlerInit ==
    /\ \E n \in 0..MaxUrls : urls = [k \in 1..n |-> k]
    /\ concurrency \in 1..MaxConcurrency
    /\ max_iterations = 0
    /\ min_rate = None
    /\ max_rate = None
    /\ best_rate = None
    /\ best_stats = None
    /\ i = 0
    /\ current_rate = None
    /\ fr_pc = "none"
    /\ fr_result = None
    /\ history = <<>>
    /\ rate = <<10, 1>>
    /\ latencies = <<>>
    /\ success_count = 0
    /\ error_count = 0
    /\ status_counts = EmptyDict
    /\ queue = <<>>
    /\ unfinished_tasks = 0
    /\ token_queue = 0
    /\ start_ref_event = FALSE
    /\ run_pc = "start"
    /\ run_result = None
    /\ token_task = "none"
    /\ wpc = EmptyDict
    /\ url = EmptyDict
    /\ tokens_emitted = 0
    /\ attempts = EmptyDict

Init == FinderInit \/ ThrottlerInit

\* any step of worker w
WorkerStep(w) ==
    \/ WorkerGetUrl(w)
    \/ WorkerGetToken(w)
    \/ \E status \in Statuses : RequestResponse(w, status)
    \/ \E latency \in Latencies : RequestSuccess(w, latency)
    \/ RequestFailure(w)

Next ==
    \/ FindRateIterate
    \/ RunStart
    \/ TokenDispense
    \/ \E w \in DOMAIN wpc : WorkerGetUrl(w)
    \/ \E w \in DOMAIN wpc : WorkerGetToken(w)
    \/ \E w \in DOMAIN wpc, status \in Statuses : RequestResponse(w, status)
    \/ \E w \in DOMAIN wpc, latency \in Latencies : RequestSuccess(w, latency)
    \/ \E w \in DOMAIN wpc : RequestFailure(w)
    \/ RunJoined
    \/ RunReturn
    \/ RunRaise
    \/ FindRateJudge
    \/ FindRateReturn

Spec == Init /\ [][Next]_vars

\* the scheduling the event loop and the environment provide: a runnable
\* coroutine is eventually resumed, every request eventually ends (one way or
\* the other), the dispenser keeps putting tokens
Fairness ==
    /\ WF_vars(FindRateIterate)
    /\ WF_vars(RunStart)
    /\ WF_vars(TokenDispense)
    /\ \A w \in 0 .. (MaxConcurrency - 1) :
         WF_vars(w \in DOMAIN wpc /\ WorkerStep(w))
    /\ WF_vars(RunJoined)
    /\ WF_vars(RunReturn \/ RunRaise)
    /\ WF_vars(FindRateJudge)
    /\ WF_vars(FindRateReturn)

FairSpec == Spec /\ Fairness

\* ------------------------------------------------------------------ claims
RECURSIVE SumOver(_, _)
SumOver(f, S) == IF S = {} THEN 0
                 ELSE LET x == CHOOSE y \in S : TRUE
                      IN  f[x] + SumOver(f, S \ {x})

\* requests started so far in the trial
RequestsStarted == SumOver(attempts, DOMAIN attempts)

\* workers with a request in flight
InFlight == {w \in DOMAIN wpc : wpc[w] \in {"request", "response_exit"}}

\* occurrences of a work item in a sequence
Occurrences(s, item) == Cardinality({k \in 1..Len(s) : s[k] = item})

\* how many times an item is in the queue or in the hands of a worker
Deliveries(item) ==
    Occurrences(queue, item) + Cardinality({w \in DOMAIN url : url[w] = item})

TrialRunning == run_pc \in {"joining", "closing", "returned", "raised"}

\* C1: when run() has returned, total_requests = success_count + error_count
\* equals len(urls)
C1_TotalIsUrlCount ==
    run_pc = "returned" =>
        /\ run_result[1] = success_count + error_count
        /\ run_result[1] = Len(urls)

C1_Witness ==
    /\ run_pc = "returned"
    /\ Len(urls) >= 2
    /\ concurrency >= 2

\* C2: every trial that is started eventually returns its TrialStats
C2_TrialReturns == (run_pc = "start") ~> (run_pc = "returned")

\* C3: a step in which a worker's request ends in a transport failure adds one
\* to error_count, adds no latency sample and no status count, acknowledges
\* the work item and leaves the worker waiting for the next one
C3_FailureIsAcknowledged ==
    [][\A w \in DOMAIN wpc :
         (wpc[w] = "request" /\ error_count' = error_count + 1
            /\ wpc'[w] # wpc[w])
         => /\ latencies' = latencies
            /\ status_counts' = status_counts
            /\ unfinished_tasks' = unfinished_tasks - 1
            /\ wpc'[w] = "queue_get"]_vars

C5_TokensAdmitRequests ==
    /\ token_queue >= 0
    /\ tokens_emitted = token_queue + RequestsStarted
    /\ RequestsStarted <= tokens_emitted

C5_Witness ==
    /\ RequestsStarted >= 2
    /\ token_queue = 0
    /\ \E w \in DOMAIN wpc : wpc[w] = "token_get"

\* C6: the requests in flight never exceed the configured concurrency
C6_InFlightBounded == Cardinality(InFlight) <= concurrency

C6_Witness ==
    /\ Cardinality(InFlight) = concurrency
    /\ concurrency >= 2
    /\ token_queue >= 1
    /\ queue # <<>>

\* C7: in the TrialStats compute_stats yields in any state, and in the one
\* run() returned, mean, std, min and max are all absent or all present, and
\* absent exactly when success_count = 0
LatencyFieldsConsistent(s) ==
    /\ \/ s[2] = None /\ s[3] = None /\ s[4] = None /\ s[5] = None
       \/ s[2] # None /\ s[3] # None /\ s[4] # None /\ s[5] # None
    /\ (s[2] = None) <=> (success_count = 0)

C7_LatencyFieldsTogether ==
    /\ LatencyFieldsConsistent(compute_stats)
    /\ run_pc = "returned" => LatencyFieldsConsistent(run_result)

C7_Witness ==
    /\ run_pc = "returned"
    /\ success_count >= 1
    /\ run_result[2] # None
    /\ run_result[4] # run_result[5]

\* C8: min_rate <= max_rate in every state of a RateFinder, before, during
\* and after find_rate
C8_RangeOrdered == (fr_pc # "none") => ~RatGT(min_rate, max_rate)

C8_Witness ==
    /\ i = 2
    /\ best_rate # None
    /\ max_rate = current_rate
    /\ RatGT(max_rate, min_rate)

\* C9: no step replaces a set best_rate by None or by a smaller rate
C9_BestRateMonotonic ==
    [][best_rate # None =>
         (best_rate' # None /\ ~RatGT(best_rate, best_rate'))]_vars

C9_Witness ==
    /\ i = 2
    /\ best_rate = <<13, 16>>
    /\ min_rate = best_rate

AcceptedRates ==
    {history[k][1] :
        k \in {j \in DOMAIN history : history[j][2] /\ history[j][3]}}

\* C11: best_rate is None exactly while no judged trial has met the
\* acceptance conditions, and a find_rate without such a trial returns None
\* with the default best_stats (None, None, None, None)
C11_BestRateAbsentIffNoneAccepted ==
    (fr_pc # "none") =>
        /\ (best_rate = None) <=> (AcceptedRates = {})
        /\ (best_rate = None) => (best_stats = default_best_stats)
        /\ (fr_pc = "done" /\ AcceptedRates = {}) =>
              fr_result = <<None, default_best_stats>>

C11_Witness ==
    /\ fr_pc = "done"
    /\ Len(history) = 2
    /\ history[1][2] /\ ~history[1][3]
    /\ history[2][2] /\ ~history[2][3]
    /\ fr_result = <<None, default_best_stats>>

\* C12: a trial over an empty URL list never waits in join(), starts no
\* request and emits no token; once its tasks are cancelled it returns
\* (0, None, None, None, None, 0.0, {}), and it does return
C12_EmptyTrialState ==
    (TrialRunning /\ Len(urls) = 0) =>
        /\ run_pc \in {"closing", "returned"}
        /\ \A w \in DOMAIN wpc : wpc[w] = "cancelled"
        /\ token_task = "cancelled"
        /\ RequestsStarted = 0
        /\ tokens_emitted = 0
        /\ success_count = 0 /\ error_count = 0 /\ latencies = <<>>
        /\ run_pc = "returned" =>
              run_result = <<0, None, None, None, None, <<0, 1>>, EmptyDict>>

C12_EmptyTrialReturns ==
    /\ []C12_EmptyTrialState
    /\ (run_pc = "start" /\ Len(urls) = 0) ~> (run_pc = "returned")

C12_Witness ==
    /\ run_pc = "returned"
    /\ Len(urls) = 0
    /\ concurrency >= 2
    /\ run_result[1] = 0

\* C13: the tasks are cancelled only when every work item has been
\* acknowledged, run() returns only after the cancellation, no counter,
\* latency or status count changes once the queue has drained, and the
\* TrialStats returned are the statistics of that moment
C13_OrderedTeardown ==
    [][/\ (token_task = "running" /\ token_task' = "cancelled") =>
            /\ unfinished_tasks = 0
            /\ queue = <<>>
            /\ InFlight = {}
            /\ \A w \in DOMAIN wpc : wpc'[w] = "cancelled"
       /\ (run_pc # "returned" /\ run_pc' = "returned") =>
            /\ token_task = "cancelled"
            /\ \A w \in DOMAIN wpc : wpc[w] = "cancelled"
            /\ run_result' = compute_stats
       /\ (TrialRunning /\ unfinished_tasks = 0 /\ run_pc' # "none") =>
            UNCHANGED stat_vars]_vars

C13_Witness ==
    /\ run_pc = "returned"
    /\ Len(urls) >= 2
    /\ concurrency >= 2
    /\ token_queue >= 1
    /\ DictGet(status_counts, 429) >= 1
    /\ run_result = compute_stats

\* C14: an iteration whose trial returned without a successful request
\* (mean None) sets max_rate to the candidate and leaves min_rate, best_rate
\* and best_stats alone, whatever the acceptance conditions would say
C14_NoSuccessLowersCeiling ==
    [][(fr_pc = "await_run" /\ run_pc = "returned" /\ run_result[2] = None
          /\ fr_pc' = "loop")
       => /\ max_rate' = current_rate
          /\ i' = i + 1
          /\ UNCHANGED <<min_rate, best_rate, best_stats>>]_vars

C14_Witness ==
    /\ Len(history) = 2
    /\ ~history[1][2] /\ ~history[2][2]
    /\ history[2][3]
    /\ max_rate = history[2][1]
    /\ RatGT(history[1][1], max_rate)
    /\ best_rate = None

\* C15: an iteration whose trial had a successful request ran it at the
\* midpoint of the range; it rejects (max_rate := candidate, the rest alone)
\* exactly when mean > concurrency / candidate or error_rate > error
\* threshold or the rate of 429 and 500 responses > bad-status threshold,
\* and accepts otherwise (min_rate := best_rate := candidate, max_rate alone)
C15_RejectIffConditionFails ==
    [][(fr_pc = "await_run" /\ run_pc = "returned" /\ run_result[2] # None
          /\ fr_pc' = "loop")
       => /\ 2 * current_rate[1] * min_rate[2] * max_rate[2]
               = current_rate[2]
                 * (min_rate[1] * max_rate[2] + max_rate[1] * min_rate[2])
          /\ rate = current_rate
          /\ IF MeetsConditions(run_result, current_rate)
             THEN /\ min_rate' = current_rate
                  /\ best_rate' = current_rate
                  /\ max_rate' = max_rate
             ELSE /\ max_rate' = current_rate
                  /\ UNCHANGED <<min_rate, best_rate, best_stats>>]_vars

C15_Witness ==
    /\ Len(history) = 2
    /\ history[1][2] /\ history[1][3]
    /\ history[2][2] /\ ~history[2][3]
    /\ best_rate = history[1][1]
    /\ min_rate = best_rate
    /\ max_rate = history[2][1]

\* the candidate rates of find_rate so far, in the order tested: those of the
\* judged trials, then the one of the trial under way
Candidates ==
    LET judged == [k \in DOMAIN history |-> history[k][1]]
    IN  IF fr_pc \in {"await_run", "raised"}
        THEN Append(judged, current_rate) ELSE judged

PairwiseDistinct(s) ==
    \A j \in DOMAIN s : \A k \in DOMAIN s : j < k => s[j] # s[k]

C17_BestIsLargestAccepted ==
    (fr_pc # "none" /\ best_rate # None) =>
        /\ best_rate \in AcceptedRates
        /\ \A a \in AcceptedRates : ~RatGT(a, best_rate)

C17_Witness ==
    /\ Cardinality(AcceptedRates) = 2
    /\ \E a \in AcceptedRates : RatGT(best_rate, a)
    /\ fr_pc = "done"

\* C18: every request started is in exactly one of three places: still in
\* flight, counted under its HTTP status (whatever the status), or counted in
\* error_count; every status count is matched by a latency sample and a
\* success_count increment once the response context is left, so in the
\* TrialStats returned the status counts sum to success_count
StatusTotal(d) == SumOver(d, DOMAIN d)

C18_ErrorStatusIsSuccess ==
    TrialRunning =>
        /\ StatusTotal(status_counts)
             = success_count
               + Cardinality({w \in DOMAIN wpc : wpc[w] = "response_exit"})
        /\ success_count = Len(latencies)
        /\ StatusTotal(status_counts) + error_count
             + Cardinality({w \in DOMAIN wpc : wpc[w] = "request"})
             = RequestsStarted
        /\ run_pc = "returned" =>
              /\ StatusTotal(run_result[7]) = success_count
              /\ run_result[1] = StatusTotal(run_result[7]) + error_count

C18_Witness ==
    /\ run_pc = "returned"
    /\ DictGet(run_result[7], 429) = 1
    /\ DictGet(run_result[7], 500) = 1
    /\ DictGet(run_result[7], 200) = 0
    /\ success_count = 2
    /\ Len(latencies) = 2
    /\ error_count = 0

\* C19: in every state of a trial success_count is the number of latency
\* samples and the number of work items whose request was started and
\* acknowledged, and error_count is the number of work items whose request
\* ended in a transport failure
C19_NoLostUpdate ==
    TrialRunning =>
        /\ success_count = Len(latencies)
        /\ success_count =
             Cardinality({item \in Items :
                            attempts[item] = 1 /\ Deliveries(item) = 0})
        /\ success_count = Len(urls) - unfinished_tasks
        /\ error_count =
             Cardinality({item \in Items :
                            \E w \in DOMAIN wpc :
                                wpc[w] = "failed" /\ url[w] = item})

C19_Witness ==
    /\ run_pc = "joining"
    /\ concurrency >= 2
    /\ success_count >= 1
    /\ error_count = 1
    /\ \E w \in DOMAIN wpc : wpc[w] = "response_exit"

\* C20: a set best_rate equals min_rate and comes with a six-field
\* best_stats; best_rate and best_stats change only in the step that judges
\* a returned trial, together, to that trial's rate and to its statistics
C20_BestRateWithItsStats ==
    /\ [](fr_pc # "none" =>
            /\ best_rate # None => (best_rate = min_rate /\ Len(best_stats) = 6)
            /\ best_rate = None => best_stats = default_best_stats)
    /\ [][(best_rate' # best_rate \/ best_stats' # best_stats) =>
            /\ fr_pc = "await_run" /\ run_pc = "returned"
            /\ rate = current_rate
            /\ best_rate' = current_rate
            /\ best_stats' = <<run_result[2], run_result[3], run_result[4],
                               run_result[5], run_result[6], run_result[7]>>
          ]_vars

C20_Witness ==
    /\ fr_pc = "done"
    /\ Len(history) = 2
    /\ ~history[1][3]
    /\ history[2][3]
    /\ best_rate = history[2][1]
    /\ best_stats[1] = <<1, 1>>
    /\ DictGet(best_stats[6], 200) = 1
    /\ fr_result = <<best_rate, best_stats>>

====
